---- MODULE Spec2Model ----
(***************************************************************************)
(* SkillBridge API: the denormalised aggregates of a bootcamp              *)
(* (averageCost, averageRating) and the Mongoose hooks on Course and       *)
(* Review that maintain them.                                              *)
(*                                                                         *)
(* A recomputation (getAverageCost / getAverageRating) is an async         *)
(* function the hooks start without awaiting it: it is modelled as a task  *)
(* with two storage steps, the aggregation query (read) and                *)
(* findByIdAndUpdate (write), which interleave freely with every other     *)
(* request and task.                                                       *)
(*                                                                         *)
(* Numbers: tuitions and ratings are integers; a $avg result is kept as    *)
(* the exact fraction <<num, den>> in lowest terms, so the rounding of a   *)
(* double is not modelled.  An absent field is the empty set, a present    *)
(* one the singleton of its value.                                         *)
(***************************************************************************)
EXTENDS Integers, Sequences, FiniteSets, TLC

\* ---- bounds of the model ----
NumBootcamps == 2
NumUsers == 2
MaxOps == 2
MaxTime == 2
TokenLife == 1
MaxOver == 1
MaxOther == 1

\* ---- program constants ----
MinRating == 1
MaxRating == 10
RoundTo == 10
Max == 100
WindowMinutes == 10

BootcampIds == 1..NumBootcamps
UserIds == 1..NumUsers
ChildIds == 1..MaxOps
TaskIds == 1..MaxOps

\* request bodies the clients send
Tuitions == {-20, 12, 18}
RatingInputs == {MinRating - 1, MinRating, 6, MaxRating, MaxRating + 1}

VARIABLES
    bootcamps,  \* the Bootcamp collection: id -> document
    courses,    \* the Course collection and the course requests in flight
    reviews,    \* the Review collection and the review requests in flight
    tasks,      \* the getAverageCost / getAverageRating calls started so far
    ops,        \* number of mutation requests accepted so far
    server,     \* "running", or "closed" once the process has shut down
    users,      \* the User collection: id -> account
    now,        \* the clock the token expiry is compared with
    req,        \* the request the middleware chain is handling, or its response
    limiter     \* the store of the rate limiter: hits per origin, age of the window

vars == <<bootcamps, courses, reviews, tasks, ops, server, users, now, req, limiter>>

\* ---- documents ----
\* a bootcamp: user is the account that published it, housing one of the
\* fields a client sets; the seeded bootcamps are the administrator's
NoBootcamp == [exists |-> FALSE, user |-> 0, housing |-> FALSE, averageCost |-> {}, averageRating |-> {}]
NewBootcamp == [exists |-> TRUE, user |-> 1, housing |-> TRUE, averageCost |-> {}, averageRating |-> {}]

\* the identifiers of the seeded bootcamps, and those of the bootcamps
\* published later
BootcampSlots == 1..(NumBootcamps + 2)

\* a course or review; value is its tuition or rating, updated tells that a
\* PUT has changed it since it was created
FreshChild == [status |-> "fresh", bootcamp |-> 0, user |-> 0, value |-> 0, updated |-> FALSE]
GoneChild(st) == [FreshChild EXCEPT !.status = st]

\* a document is in its collection from the insert until the delete commits
Stored(doc) == doc.status \in {"live", "removing"}

IdleTask == [pc |-> "idle", kind |-> "none", hook |-> "none", doc |-> 0, bootcamp |-> 0, obj |-> <<>>]
DoneTask(pc) == [IdleTask EXCEPT !.pc = pc]

\* ---- arithmetic ----
Abs(x) == IF x < 0 THEN -x ELSE x

RECURSIVE GCD(_, _)
GCD(a, b) == IF b = 0 THEN a ELSE GCD(b, a % b)

\* the number sum / n, as a fraction in lowest terms with a positive denominator
Frac(sum, n) ==
    LET g == GCD(Abs(sum), n)
    IN  <<sum \div g, n \div g>>

RECURSIVE SumOver(_, _)
SumOver(coll, ids) ==
    IF ids = {} THEN 0
    ELSE LET i == CHOOSE x \in ids : TRUE
         IN  coll[i].value + SumOver(coll, ids \ {i})

\* Math.ceil(x) for the fraction x = q[1] / q[2]
MathCeil(q) ==
    IF q[1] % q[2] = 0 THEN q[1] \div q[2] ELSE (q[1] \div q[2]) + 1

\* ---- the aggregation pipeline: $match {bootcamp}, $group {$avg} ----
Matching(coll, b) == {i \in ChildIds : Stored(coll[i]) /\ coll[i].bootcamp = b}

\* the pipeline with $sum in place of $avg
AggregateSum(coll, b) ==
    LET m == Matching(coll, b)
    IN  IF m = {} THEN <<>>
        ELSE <<[_id |-> b, avg |-> Frac(SumOver(coll, m), 1)]>>

Aggregate(coll, b) ==
    LET m == Matching(coll, b)
    IN  IF m = {} THEN <<>>
        ELSE <<[_id |-> b, avg |-> Frac(SumOver(coll, m), Cardinality(m))]>>

\* ---- findByIdAndUpdate on the Bootcamp collection ----
\* the update with {upsert: true}: a document is inserted when none matches
FindByIdAndUpsert(bcs, b, field, val) ==
    IF b \in DOMAIN bcs
    THEN [bcs EXCEPT ![b].exists = TRUE, ![b][field] = {val}]
    ELSE bcs

FindByIdAndUpdate(bcs, b, field, val) ==
    IF b \in DOMAIN bcs /\ bcs[b].exists
    THEN [bcs EXCEPT ![b][field] = {val}]
    ELSE bcs

\* Math.floor in place of Math.ceil
CostUpdateFloor(obj) == (obj[1].avg[1] \div (obj[1].avg[2] * RoundTo)) * RoundTo

\* the update document getAverageCost builds: Math.ceil(avg / 10) * 10
CostUpdate(obj) == MathCeil(<<obj[1].avg[1], obj[1].avg[2] * RoundTo>>) * RoundTo

\* the rating rounded up to a whole number before it is stored
RatingUpdateCeil(obj) == <<MathCeil(obj[1].avg), 1>>

\* the update document getAverageRating builds: the $avg result itself
RatingUpdate(obj) == obj[1].avg

\* an update that adds to the stored average ($inc) instead of replacing it
WriteCostIncrement(bcs, b, obj) ==
    IF Len(obj) > 0
    THEN IF b \in DOMAIN bcs /\ bcs[b].averageCost # {}
         THEN FindByIdAndUpdate(bcs, b, "averageCost",
                  CostUpdate(obj) + (CHOOSE v \in bcs[b].averageCost : TRUE))
         ELSE FindByIdAndUpdate(bcs, b, "averageCost", CostUpdate(obj))
    ELSE bcs

\* the try block of getAverageCost / getAverageRating
WriteCost(bcs, b, obj) ==
    IF Len(obj) > 0 THEN FindByIdAndUpdate(bcs, b, "averageCost", CostUpdate(obj))
    ELSE bcs

WriteRating(bcs, b, obj) ==
    IF Len(obj) > 0 THEN FindByIdAndUpdate(bcs, b, "averageRating", RatingUpdate(obj))
    ELSE bcs

\* ---- starting a recomputation from a hook ----
Started == {i \in TaskIds : tasks[i].pc # "idle"}
NextTask == Cardinality(Started) + 1

StartTask(kind, hook, doc, b) ==
    [tasks EXCEPT ![NextTask] =
        [pc |-> "read", kind |-> kind, hook |-> hook, doc |-> doc, bootcamp |-> b, obj |-> <<>>]]

\* CourseSchema.post("save") and CourseSchema.pre("remove")
CoursePostSave(c, b) == StartTask("cost", "save", c, b)
CoursePreRemove(c, b) == StartTask("cost", "remove", c, b)

\* ReviewSchema.post("save") and ReviewSchema.pre("remove")
ReviewPostSave(r, b) == StartTask("rating", "save", r, b)
ReviewPreRemove(r, b) == StartTask("rating", "remove", r, b)

CanAccept == server = "running" /\ ops < MaxOps

\* Identifiers are opaque ObjectIds.  Bootcamps that nothing refers to yet are
\* interchangeable, and so are users without a review: a request that
\* addresses one of them addresses the first.
PristineBootcamp(b) ==
    /\ bootcamps[b] = NewBootcamp
    /\ \A x \in ChildIds : courses[x].bootcamp # b /\ reviews[x].bootcamp # b
    /\ \A i \in TaskIds : tasks[i].bootcamp # b

PristineUser(u) == \A x \in ChildIds : reviews[x].user # u

Addressed(b) == \A other \in BootcampIds : PristineBootcamp(b) /\ PristineBootcamp(other) => b <= other
Requesting(u) == \A other \in UserIds : PristineUser(u) /\ PristineUser(other) => u <= other

NextId(coll) == Cardinality({i \in ChildIds : coll[i].status # "fresh"}) + 1

\* ---- accounts ----
Roles == {"user", "publisher", "admin"}

\* an account; born and died are the clock times of its creation and deletion
FreshUser == [status |-> "fresh", role |-> "none", email |-> 0, born |-> 0, died |-> 0]
LiveUser(role, email, t) == [status |-> "live", role |-> role, email |-> email, born |-> t, died |-> 0]
GoneUser(doc, t) == [FreshUser EXCEPT !.status = "gone", !.born = doc.born, !.died = t]

\* the identifiers of the seeded accounts, and the one of the account an
\* administrator creates later
AccountIds == 1..(NumUsers + 1)

\* the seeded accounts: the administrator, then reviewers and publishers
SeedRole(u) == IF u = 1 THEN "admin" ELSE IF u % 2 = 0 THEN "user" ELSE "publisher"

SeedUsers ==
    [u \in AccountIds |-> IF u \in UserIds THEN LiveUser(SeedRole(u), u, 0) ELSE FreshUser]

\* the same accounts and a publisher
SeedWithPublisher ==
    [SeedUsers EXCEPT ![NumUsers + 1] = LiveUser("publisher", NumUsers + 1, 0)]

\* ---- path identifiers ----
\* "12345": a string the store cannot cast to an ObjectId
Malformed == 0

\* the identifiers a client may put in a path: a malformed one, those of the
\* collection, and a new ObjectId that matches no document
PathIds(ids) == {Malformed} \cup ids \cup {Cardinality(ids) + 1}

\* ---- bearer tokens ----
NoBearer == [sub |-> 0, exp |-> 0, sig |-> "none"]
Forged(a) == [sub |-> a, exp |-> MaxTime + TokenLife + 1, sig |-> "forged"]

\* a token signed with the server's secret at time t for account a
Issue(a, t) == [sub |-> a, exp |-> t + TokenLife, sig |-> "secret"]

Invalid == [kind |-> "Invalid", sub |-> 0]
Expired == [kind |-> "Expired", sub |-> 0]

\* a verification that ignores the expiry
VerifyNoExpiry(tok, t) ==
    IF tok.sig # "secret" THEN Invalid ELSE [kind |-> "ok", sub |-> tok.sub]

\* the signature is checked first, then the expiry against the clock
Verify(tok, t) ==
    IF tok.sig # "secret" THEN Invalid
    ELSE IF t >= tok.exp THEN Expired
    ELSE [kind |-> "ok", sub |-> tok.sub]

\* ---- errors and the error handler ----
MongooseError(name, code, errors) ==
    [name |-> name, code |-> code, statusCode |-> 0, message |-> name, errors |-> errors]

CastError == MongooseError("CastError", 0, "")
DuplicateKey == MongooseError("MongoError", 11000, "")
ValidationError(messages) == MongooseError("ValidationError", 0, messages)
TypeError == MongooseError("TypeError", 0, "")

\* an error of the database driver: no statusCode, no code, a name that no
\* branch of the error handler knows, and the driver's own message
DriverError(message) ==
    [name |-> "MongoNetworkError", code |-> 0, statusCode |-> 0, message |-> message, errors |-> ""]

\* the messages of such errors: none, or one that names a host of the
\* deployment
DriverMessages == {"", "connect ECONNREFUSED 10.0.0.5:27017"}

\* new ErrorResponse(message, statusCode)
ErrorResponse(message, statusCode) ==
    [name |-> "Error", code |-> 0, statusCode |-> statusCode, message |-> message, errors |-> ""]

\* the error handler without its CastError branch
CastBranchMissing(error, errors) == errors

\* if (error.name === "CastError"): Mongoose bad ObjectId
CastBranch(error, errors) ==
    IF error.name = "CastError" THEN ErrorResponse("Resource not found", 404) ELSE errors

\* the error handler without its duplicate key branch
DuplicateBranchMissing(error, errors) == errors

\* if (error.code === 11000): Mongoose duplicate key
DuplicateBranch(error, errors) ==
    IF error.code = 11000 THEN ErrorResponse("Duplicate field value entered", 400) ELSE errors

\* if (error.name === "ValidationError"): the messages of the failed validators
ValidationBranch(error, errors) ==
    IF error.name = "ValidationError" THEN ErrorResponse(error.errors, 400) ELSE errors

\* errors.statusCode || 500
StatusOf(errors) == IF errors.statusCode # 0 THEN errors.statusCode ELSE 500

\* the fixed text in place of the message of the error
MessageOfDefault(errors) == "Server Error"

\* errors.message || "Server Error"
MessageOf(errors) == IF errors.message # "" THEN errors.message ELSE "Server Error"

\* errorHandler: the status and body it answers for an error handed to next()
ErrorHandler(error) ==
    LET errors == ValidationBranch(error, DuplicateBranch(error, CastBranch(error, error)))
    IN  [status |-> StatusOf(errors), success |-> FALSE, error |-> MessageOf(errors)]

\* ---- requests ----
NoUser == [id |-> 0, role |-> "none"]

\* what a handler reads of the body: an email or a rating, and whether the
\* required fields are there
NoBody == [value |-> 0, complete |-> TRUE]
Body(value, complete) == [value |-> value, complete |-> complete]

\* ---- the rate limiter ----
\* the origins the limiter keys its hits by (req.ip): the client that is
\* followed, and another one
Origins == {1, 2}

\* the store at the start of a window: no hits
NewStore == [hits |-> [o \in Origins |-> 0], minute |-> 0]

\* statusCode and message are not among the options: the defaults apply
TooManyRequests == 429
LimiterMessage == "Too many requests, please try again later."

\* ---- the page window of a listing ----
\* what parseInt gives for a parameter that is absent or not a number
NaN == 0

\* the page size of a listing without a limit
DefaultLimit == 25

NoQuery == [page |-> NaN, limit |-> NaN]

\* page is 1-based and defaults to 1, limit defaults to DefaultLimit
PageOf(query) == IF query.page = NaN THEN 1 ELSE query.page
LimitOf(query) == IF query.limit = NaN THEN DefaultLimit ELSE query.limit

NoPagination == [next |-> {}, prev |-> {}, count |-> 0]

\* a pager that offers a next page when the window ends at the last record
PaginationInclusive(page, limit, total) ==
    LET skip == (page - 1) * limit
    IN  [next |-> IF skip + limit <= total THEN {[page |-> page + 1, limit |-> limit]} ELSE {},
         prev |-> IF page > 1 THEN {[page |-> page - 1, limit |-> limit]} ELSE {},
         count |-> IF total <= skip THEN 0 ELSE IF total - skip < limit THEN total - skip ELSE limit]

\* the navigation of the window [skip, skip + limit) over total records, and
\* the number of records in it
Pagination(page, limit, total) ==
    LET skip == (page - 1) * limit
    IN  [next |-> IF skip + limit < total THEN {[page |-> page + 1, limit |-> limit]} ELSE {},
         prev |-> IF page > 1 THEN {[page |-> page - 1, limit |-> limit]} ELSE {},
         count |-> IF total <= skip THEN 0 ELSE IF total - skip < limit THEN total - skip ELSE limit]

\* ip is the origin of a request followed from the moment the application
\* receives it, and 0 for one followed from its router on; ran lists the
\* middleware and handlers that have run for the request; status is 0 until
\* the response is sent; text is a body that is not JSON
NoRequest ==
    [ip |-> 0, res |-> "none", op |-> "none", token |-> NoBearer, ran |-> <<>>, user |-> NoUser,
     id |-> -1, body |-> NoBody, query |-> NoQuery, status |-> 0, success |-> FALSE,
     error |-> "", data |-> "none", pagination |-> NoPagination, text |-> ""]

\* the state after start-up, over a database that holds the accounts
InitWith(accounts) ==
    /\ bootcamps = [b \in BootcampSlots |-> IF b \in BootcampIds THEN NewBootcamp ELSE NoBootcamp]
    /\ courses = [c \in ChildIds |-> FreshChild]
    /\ reviews = [r \in ChildIds |-> FreshChild]
    /\ tasks = [i \in TaskIds |-> IdleTask]
    /\ ops = 0
    /\ server = "running"
    /\ users = accounts
    /\ now = 0
    /\ req = NoRequest
    /\ limiter = NewStore

Init == InitWith(SeedUsers)

\* ---- course requests ----
\* POST /bootcamps/:b/courses : Course.create, then the post-save hook
CreateCourse(b, t) ==
    /\ CanAccept
    /\ Addressed(b)
    /\ bootcamps[b].exists
    /\ LET c == NextId(courses)
       IN  /\ courses' = [courses EXCEPT ![c] =
                [status |-> "live", bootcamp |-> b, user |-> 0, value |-> t, updated |-> FALSE]]
           /\ tasks' = CoursePostSave(c, b)
    /\ ops' = ops + 1
    /\ UNCHANGED <<bootcamps, reviews, server, users, now, req, limiter>>

\* PUT /courses/:c : the tuition is written, then the document is saved
UpdateCourse(c, t) ==
    /\ CanAccept
    /\ Stored(courses[c])
    /\ courses' = [courses EXCEPT ![c].value = t, ![c].updated = TRUE]
    /\ tasks' = CoursePostSave(c, courses[c].bootcamp)
    /\ ops' = ops + 1
    /\ UNCHANGED <<bootcamps, reviews, server, users, now, req, limiter>>

\* DELETE /courses/:c : course.remove() runs the pre-remove hook first ...
RemoveCourse(c) ==
    /\ CanAccept
    /\ courses[c].status = "live"
    /\ courses' = [courses EXCEPT ![c].status = "removing"]
    /\ tasks' = CoursePreRemove(c, courses[c].bootcamp)
    /\ ops' = ops + 1
    /\ UNCHANGED <<bootcamps, reviews, server, users, now, req, limiter>>

\* ... and the delete reaches the store afterwards
CommitRemoveCourse(c) ==
    /\ server = "running"
    /\ courses[c].status = "removing"
    /\ courses' = [courses EXCEPT ![c] = GoneChild("removed")]
    /\ UNCHANGED <<bootcamps, reviews, tasks, ops, server, users, now, req, limiter>>

\* ---- review requests ----
\* the schema validators of rating: min 1, max 10
ValidRating(x) == x >= MinRating /\ x <= MaxRating

\* the index {bootcamp: 1, user: 1} declared without unique: true
IndexAdmitsAny(coll, b, u) == TRUE

\* the unique index {bootcamp: 1, user: 1} admits the key (b, u)
IndexAdmits(coll, b, u) ==
    \A i \in ChildIds : ~(Stored(coll[i]) /\ coll[i].bootcamp = b /\ coll[i].user = u)

\* POST /bootcamps/:b/reviews : Review.create validates the document and
\* sends the insert ...
SubmitReview(u, b, x) ==
    /\ CanAccept
    /\ Addressed(b)
    /\ Requesting(u)
    /\ bootcamps[b].exists
    /\ LET r == NextId(reviews)
       IN  reviews' = [reviews EXCEPT ![r] =
                IF ValidRating(x)
                THEN [status |-> "pending", bootcamp |-> b, user |-> u, value |-> x, updated |-> FALSE]
                ELSE GoneChild("invalid")]
    /\ ops' = ops + 1
    /\ UNCHANGED <<bootcamps, courses, tasks, server, users, now, req, limiter>>

\* ... the store applies it unless the unique index rejects the key (E11000);
\* the post-save hook runs after a successful insert only
InsertReview(r) ==
    /\ server = "running"
    /\ reviews[r].status = "pending"
    /\ IF IndexAdmits(reviews, reviews[r].bootcamp, reviews[r].user)
       THEN /\ reviews' = [reviews EXCEPT ![r].status = "live"]
            /\ tasks' = ReviewPostSave(r, reviews[r].bootcamp)
       ELSE /\ reviews' = [reviews EXCEPT ![r] = GoneChild("duplicate")]
            /\ tasks' = tasks
    /\ UNCHANGED <<bootcamps, courses, ops, server, users, now, req, limiter>>

\* PUT /reviews/:r : the rating is written, then the document is saved
UpdateReview(r, x) ==
    /\ CanAccept
    /\ Stored(reviews[r])
    /\ ValidRating(x)
    /\ reviews' = [reviews EXCEPT ![r].value = x, ![r].updated = TRUE]
    /\ tasks' = ReviewPostSave(r, reviews[r].bootcamp)
    /\ ops' = ops + 1
    /\ UNCHANGED <<bootcamps, courses, server, users, now, req, limiter>>

\* DELETE /reviews/:r : review.remove() runs the pre-remove hook first ...
RemoveReview(r) ==
    /\ CanAccept
    /\ reviews[r].status = "live"
    /\ reviews' = [reviews EXCEPT ![r].status = "removing"]
    /\ tasks' = ReviewPreRemove(r, reviews[r].bootcamp)
    /\ ops' = ops + 1
    /\ UNCHANGED <<bootcamps, courses, server, users, now, req, limiter>>

\* ... and the delete reaches the store afterwards
CommitRemoveReview(r) ==
    /\ server = "running"
    /\ reviews[r].status = "removing"
    /\ reviews' = [reviews EXCEPT ![r] = GoneChild("removed")]
    /\ UNCHANGED <<bootcamps, courses, tasks, ops, server, users, now, req, limiter>>

\* ---- bootcamp requests ----
\* DELETE /bootcamps/:b : the bootcamp document leaves its collection
DeleteBootcamp(b) ==
    /\ CanAccept
    /\ Addressed(b)
    /\ bootcamps[b].exists
    /\ bootcamps' = [bootcamps EXCEPT ![b] = NoBootcamp]
    /\ ops' = ops + 1
    /\ UNCHANGED <<courses, reviews, tasks, server, users, now, req, limiter>>

\* ---- the two storage steps of getAverageCost / getAverageRating ----
Collection(kind) == IF kind = "cost" THEN courses ELSE reviews

\* const obj = await this.aggregate([...])
TaskRead(i) ==
    /\ server = "running"
    /\ tasks[i].pc = "read"
    /\ tasks' = [tasks EXCEPT ![i].pc = "write",
                              ![i].obj = Aggregate(Collection(tasks[i].kind), tasks[i].bootcamp)]
    /\ UNCHANGED <<bootcamps, courses, reviews, ops, server, users, now, req, limiter>>

\* the try block: findByIdAndUpdate when obj is not empty, a log line otherwise
TaskWrite(i) ==
    /\ server = "running"
    /\ tasks[i].pc = "write"
    /\ bootcamps' = IF tasks[i].kind = "cost"
                    THEN WriteCost(bootcamps, tasks[i].bootcamp, tasks[i].obj)
                    ELSE WriteRating(bootcamps, tasks[i].bootcamp, tasks[i].obj)
    /\ tasks' = [tasks EXCEPT ![i] = DoneTask("done")]
    /\ UNCHANGED <<courses, reviews, ops, server, users, now, req, limiter>>

\* ---- storage faults ----
\* process.on("unhandledRejection"): log, close the server, exit
UnhandledRejection == "closed"

\* the aggregation query rejects: the await is outside the try block, so the
\* promise of getAverageCost / getAverageRating rejects, and no hook holds it
AggregateFails(i) ==
    /\ server = "running"
    /\ tasks[i].pc = "read"
    /\ tasks' = [tasks EXCEPT ![i].pc = "rejected"]
    /\ server' = UnhandledRejection
    /\ UNCHANGED <<bootcamps, courses, reviews, ops, users, now, req, limiter>>

\* findByIdAndUpdate rejects: the catch block logs the error
UpdateFails(i) ==
    /\ server = "running"
    /\ tasks[i].pc = "write"
    /\ Len(tasks[i].obj) > 0
    /\ tasks' = [tasks EXCEPT ![i].pc = "logged"]
    /\ UNCHANGED <<bootcamps, courses, reviews, ops, server, users, now, req, limiter>>

Next ==
    \/ \E b \in BootcampIds, t \in Tuitions : CreateCourse(b, t)
    \/ \E c \in ChildIds, t \in Tuitions : UpdateCourse(c, t)
    \/ \E c \in ChildIds : RemoveCourse(c)
    \/ \E c \in ChildIds : CommitRemoveCourse(c)
    \/ \E u \in UserIds, b \in BootcampIds, x \in RatingInputs : SubmitReview(u, b, x)
    \/ \E r \in ChildIds : InsertReview(r)
    \/ \E r \in ChildIds, x \in RatingInputs : UpdateReview(r, x)
    \/ \E r \in ChildIds : RemoveReview(r)
    \/ \E r \in ChildIds : CommitRemoveReview(r)
    \/ \E b \in BootcampIds : DeleteBootcamp(b)
    \/ \E i \in TaskIds : TaskRead(i)
    \/ \E i \in TaskIds : TaskWrite(i)

Spec == Init /\ [][Next]_vars

\* the same system when storage calls may fail
NextF ==
    \/ Next
    \/ \E i \in TaskIds : AggregateFails(i)
    \/ \E i \in TaskIds : UpdateFails(i)

SpecF == Init /\ [][NextF]_vars

\* ==== the request pipeline: middleware chain, users and reviews handlers ====
\* Requests are taken one at a time; the recomputations their hooks start
\* run in the background, interleaved with the stages of later requests.

\* ---- the users router ----
\* the router without router.use(protect)
RouterUseOpen == <<"authorize">>

\* router.use(protect); router.use(authorize("admin"))
RouterUse == <<"protect", "authorize">>

\* authorize("admin", "publisher", "user")
UsersRolesAll == Roles

\* the roles authorize("admin") lets through
UsersRoles == {"admin"}

\* router.route("/") and router.route("/:id")
UsersRoute(op) ==
    CASE op = "list" -> <<"advancedResults", "getUsers">>
      [] op = "create" -> <<"createUser">>
      [] op = "get" -> <<"getUser">>
      [] op = "update" -> <<"updateUser">>
      [] op = "delete" -> <<"deleteUser">>

\* authorize("admin") placed on the routes, after the handlers
UsersRouterGateLast(op) == <<"protect">> \o UsersRoute(op) \o <<"authorize">>

UsersRouter(op) == RouterUse \o UsersRoute(op)

\* ---- the other routers ----
ReviewsRoles == {"user", "admin"}

ReviewsRouter(op) ==
    CASE op = "get" -> <<"getReview">>
      [] op = "create" -> <<"protect", "authorize", "addReview">>
      [] op = "update" -> <<"protect", "authorize", "updateReview">>
      [] op = "delete" -> <<"protect", "authorize", "deleteReview">>

PublisherRoles == {"publisher", "admin"}

BootcampsRouter(op) ==
    CASE op = "get" -> <<"getBootcamp">>
      [] op = "create" -> <<"protect", "authorize", "createBootcamp">>
      [] op = "update" -> <<"protect", "authorize", "updateBootcamp">>

CoursesRouter(op) ==
    CASE op = "get" -> <<"getCourse">>
      [] op = "create" -> <<"protect", "authorize", "addCourse">>

\* the middleware and the handler a request passes through, in order
Chain(res, op) ==
    CASE res = "users" -> UsersRouter(op)
      [] res = "reviews" -> ReviewsRouter(op)
      [] res = "bootcamps" -> BootcampsRouter(op)
      [] res = "courses" -> CoursesRouter(op)
      [] res = "static" -> <<>>

AllowedRoles(res) ==
    CASE res = "users" -> UsersRoles
      [] res = "reviews" -> ReviewsRoles
      [] res \in {"bootcamps", "courses"} -> PublisherRoles

UsersOps == {"list", "get", "create", "update", "delete"}

Routes ==
    ({"users"} \X UsersOps)
        \cup ({"reviews"} \X {"get", "create", "update", "delete"})
        \cup {<<"bootcamps", "get">>, <<"courses", "get">>}

\* the endpoints that answer without a token
Public(res, op) == res # "users" /\ op = "get"

\* ---- the application ----
\* the limiter mounted after the routers
AppUseLimiterLast == <<"static", "routers", "limiter", "errorHandler">>

\* app.use(...), in the order of the calls
AppUse == <<"limiter", "static", "routers", "errorHandler">>

\* the stages a request passes through: a router stands for the chain of the
\* request's route, and the error handler is entered by next(error) only
RECURSIVE Mounted(_, _, _)
Mounted(use, res, op) ==
    IF use = <<>> THEN <<>>
    ELSE (IF Head(use) = "routers" THEN Chain(res, op)
          ELSE IF Head(use) = "errorHandler" THEN <<>>
          ELSE <<Head(use)>>) \o Mounted(Tail(use), res, op)

Stages(r) == IF r.ip = 0 THEN Chain(r.res, r.op) ELSE Mounted(AppUse, r.res, r.op)

\* the routes of the requests followed through the application
AppRoutes == {<<"static", "get">>, <<"bootcamps", "get">>, <<"users", "list">>}

\* ---- what clients send ----
\* the tokens a client can hold: none, one signed by somebody else, and, for
\* an account, the one issued when it was created and the one issued at its
\* latest login (now, or just before it was deleted)
IssueTimes(doc) ==
    IF doc.status = "fresh" THEN {}
    ELSE {doc.born, IF doc.status = "gone" THEN doc.died ELSE now}

Presentable ==
    {NoBearer, Forged(1)} \cup
    UNION {{Issue(a, t) : t \in IssueTimes(users[a])} : a \in AccountIds}

\* the emails of the account bodies: the administrator's, and one that no
\* seeded account has
Emails == {1, NumUsers + 1}

\* the page and limit parameters of a listing: absent or not a number, or a
\* positive number
PageParams == {NaN} \cup (1..(NumUsers + 1))
LimitParams == {NaN} \cup (1..NumUsers)

\* the bodies of the bootcamp requests: one with the fields a client is meant
\* to send, one that also carries the two aggregates
BootcampBodies ==
    {[housing |-> TRUE, averageCost |-> {}, averageRating |-> {}],
     [housing |-> FALSE, averageCost |-> {990}, averageRating |-> {<<MaxRating, 1>>}]}

\* the tuitions of the course bodies
CourseBodies == {12}

\* the ratings of the review bodies
ReviewBodies == {MinRating - 1, 6, MaxRating}

\* ---- the stages of a request ----
Idle == req.res = "none" \/ req.status # 0

\* stage is the next one of the request's chain
Pending(stage) ==
    /\ req.res # "none"
    /\ req.status = 0
    /\ Len(req.ran) < Len(Stages(req))
    /\ Stages(req)[Len(req.ran) + 1] = stage

\* next(): the stage has run and hands over to the following one
Pass(r, stage) == [r EXCEPT !.ran = Append(@, stage)]

\* res.status(status).json({success: true, data})
Respond(r, stage, status, data) ==
    [Pass(r, stage) EXCEPT !.status = status, !.success = TRUE, !.data = data]

\* the place of a middleware in the order of the app.use calls
RECURSIVE Position(_, _)
Position(use, stage) ==
    IF use = <<>> \/ Head(use) = stage THEN 1 ELSE 1 + Position(Tail(use), stage)

\* next(error) skips to the error-handling middleware mounted after the
\* router the error comes from
HandlesErrors == Position(AppUse, "errorHandler") > Position(AppUse, "routers")

\* without one, the handler built into express answers: the status of the
\* error, and a page that is not JSON
FinalHandler(error) ==
    [status |-> StatusOf(error), success |-> FALSE, error |-> "", text |-> error.message]

\* next(error): the error handler mounted after the routers answers
Fail(r, stage, error) ==
    LET answer == IF HandlesErrors THEN ErrorHandler(error) ELSE FinalHandler(error)
    IN  [Pass(r, stage) EXCEPT !.status = answer.status, !.success = answer.success,
                               !.error = answer.error,
                               !.text = IF HandlesErrors THEN "" ELSE answer.text]

\* a request arrives at a route
Arrive(res, op, tok) ==
    /\ CanAccept
    /\ Idle
    /\ tok \in (IF Public(res, op) THEN {NoBearer} ELSE Presentable)
    /\ req' = [NoRequest EXCEPT !.res = res, !.op = op, !.token = tok]
    /\ UNCHANGED <<bootcamps, courses, reviews, tasks, ops, server, users, now, limiter>>

\* the application receives a request from an origin
Receive(ip, res, op, tok) ==
    /\ CanAccept
    /\ Idle
    /\ limiter.hits[ip] < (IF ip = 1 THEN Max + MaxOver ELSE MaxOther)
    /\ tok \in (IF Public(res, op) THEN {NoBearer} ELSE Presentable)
    /\ req' = [NoRequest EXCEPT !.ip = ip, !.res = res, !.op = op, !.token = tok]
    /\ UNCHANGED <<bootcamps, courses, reviews, tasks, ops, server, users, now, limiter>>

\* a minute passes between two requests; the store is reset when the window
\* is over
Minute ==
    /\ Idle
    /\ limiter' = IF limiter.minute + 1 = WindowMinutes THEN NewStore
                  ELSE [limiter EXCEPT !.minute = @ + 1]
    /\ UNCHANGED <<bootcamps, courses, reviews, tasks, ops, server, users, now, req>>

\* limiter: the hit is counted, and the request is answered when the origin
\* is over max, handed on otherwise
Limiter ==
    /\ Pending("limiter")
    /\ LET current == limiter.hits[req.ip] + 1
       IN  /\ limiter' = [limiter EXCEPT !.hits[req.ip] = current]
           /\ req' = IF current > Max
                     THEN [Pass(req, "limiter") EXCEPT !.status = TooManyRequests, !.text = LimiterMessage]
                     ELSE Pass(req, "limiter")
    /\ UNCHANGED <<bootcamps, courses, reviews, tasks, ops, server, users, now>>

\* express.static: a file of the public folder is sent, any other request is
\* handed on
Static ==
    /\ Pending("static")
    /\ req' = IF req.res = "static"
              THEN [Pass(req, "static") EXCEPT !.status = 200, !.text = "file"]
              ELSE Pass(req, "static")
    /\ UNCHANGED <<bootcamps, courses, reviews, tasks, ops, server, users, now, limiter>>

\* the clock advances between two requests (only protect reads it, as its
\* first step)
Tick ==
    /\ Idle
    /\ now < MaxTime
    /\ now' = now + 1
    /\ UNCHANGED <<bootcamps, courses, reviews, tasks, ops, server, users, req, limiter>>

\* ---- middleware/auth ----
\* protect attaching whatever the lookup of the subject returns
ProtectUnresolved ==
    /\ Pending("protect")
    /\ LET v == Verify(req.token, now)
       IN  req' = IF req.token = NoBearer \/ v.kind # "ok"
                  THEN Fail(req, "protect", ErrorResponse("Not authorized to access this route", 401))
                  ELSE [Pass(req, "protect") EXCEPT
                            !.user = [id |-> v.sub, role |-> users[v.sub].role]]
    /\ UNCHANGED <<bootcamps, courses, reviews, tasks, ops, server, users, now, limiter>>

\* protect: verify the bearer token and resolve its subject to an account
Protect ==
    /\ Pending("protect")
    /\ LET v == Verify(req.token, now)
       IN  req' = IF req.token = NoBearer \/ v.kind # "ok" \/ users[v.sub].status # "live"
                  THEN Fail(req, "protect", ErrorResponse("Not authorized to access this route", 401))
                  ELSE [Pass(req, "protect") EXCEPT
                            !.user = [id |-> v.sub, role |-> users[v.sub].role]]
    /\ UNCHANGED <<bootcamps, courses, reviews, tasks, ops, server, users, now, limiter>>

RoleMessage(role) == "User role " \o role \o " is not authorized to access this route"

\* authorize(...roles): the role gate; req.user.role throws when no account
\* is attached
Authorize ==
    /\ Pending("authorize")
    /\ req' = IF req.user = NoUser
              THEN Fail(req, "authorize", TypeError)
              ELSE IF req.user.role \notin AllowedRoles(req.res)
              THEN Fail(req, "authorize", ErrorResponse(RoleMessage(req.user.role), 403))
              ELSE Pass(req, "authorize")
    /\ UNCHANGED <<bootcamps, courses, reviews, tasks, ops, server, users, now, limiter>>

\* advancedResults(User): the count query over the filter, then the listing
\* and its navigation are put in res.advancedResults
AdvancedResults(page, limit) ==
    /\ Pending("advancedResults")
    /\ LET query == [page |-> page, limit |-> limit]
           total == Cardinality({u \in AccountIds : users[u].status = "live"})
       IN  req' = [Pass(req, "advancedResults") EXCEPT
                      !.query = query,
                      !.data = "list",
                      !.pagination = Pagination(PageOf(query), LimitOf(query), total)]
    /\ UNCHANGED <<bootcamps, courses, reviews, tasks, ops, server, users, now, limiter>>

\* ---- controllers/users ----
EmailTaken(coll, email, except) ==
    \E u \in AccountIds : u # except /\ coll[u].status = "live" /\ coll[u].email = email

NewUserId == CHOOSE u \in AccountIds :
    users[u].status = "fresh" /\ \A v \in AccountIds : users[v].status = "fresh" => u <= v

\* getUsers: res.status(200).json(res.advancedResults)
GetUsers ==
    /\ Pending("getUsers")
    /\ req' = Respond(req, "getUsers", 200, req.data)
    /\ UNCHANGED <<bootcamps, courses, reviews, tasks, ops, server, users, now, limiter>>

\* getUser with a null check that answers 404
GetUserChecked(id) ==
    /\ Pending("getUser")
    /\ req' = [(IF id = Malformed THEN Fail(req, "getUser", CastError)
                ELSE IF id \in AccountIds /\ users[id].status = "live"
                THEN Respond(req, "getUser", 200, "account")
                ELSE Fail(req, "getUser", ErrorResponse("Resource not found", 404)))
               EXCEPT !.id = id]
    /\ UNCHANGED <<bootcamps, courses, reviews, tasks, ops, server, users, now, limiter>>

\* getUser: findById, then 200 with the account or null
GetUser(id) ==
    /\ Pending("getUser")
    /\ req' = [(IF id = Malformed THEN Fail(req, "getUser", CastError)
                ELSE IF id \in AccountIds /\ users[id].status = "live"
                THEN Respond(req, "getUser", 200, "account")
                ELSE Respond(req, "getUser", 200, "null"))
               EXCEPT !.id = id]
    /\ UNCHANGED <<bootcamps, courses, reviews, tasks, ops, server, users, now, limiter>>

\* createUser: User.create validates the body, then inserts under the unique
\* index on email
CreateUser(email, role, password) ==
    /\ Pending("createUser")
    /\ IF ~password
       THEN /\ req' = [Fail(req, "createUser", ValidationError("Please add a password"))
                       EXCEPT !.body = Body(email, password)]
            /\ UNCHANGED <<users, ops>>
       ELSE IF EmailTaken(users, email, 0)
       THEN /\ req' = [Fail(req, "createUser", DuplicateKey) EXCEPT !.body = Body(email, password)]
            /\ UNCHANGED <<users, ops>>
       ELSE /\ \E u \in AccountIds : users[u].status = "fresh"
            /\ users' = [users EXCEPT ![NewUserId] = LiveUser(role, email, now)]
            /\ ops' = ops + 1
            /\ req' = [Respond(req, "createUser", 201, "account")
                       EXCEPT !.id = NewUserId, !.body = Body(email, password)]
    /\ UNCHANGED <<bootcamps, courses, reviews, tasks, server, now, limiter>>

\* updateUser: findByIdAndUpdate(id, body, {new, runValidators}); email 0
\* stands for a body that leaves the email alone
UpdateUser(id, email) ==
    /\ Pending("updateUser")
    /\ IF id = Malformed
       THEN /\ req' = [Fail(req, "updateUser", CastError) EXCEPT !.id = id, !.body = Body(email, TRUE)]
            /\ UNCHANGED <<users, ops>>
       ELSE IF ~(id \in AccountIds /\ users[id].status = "live")
       THEN /\ req' = [Respond(req, "updateUser", 200, "null") EXCEPT !.id = id, !.body = Body(email, TRUE)]
            /\ UNCHANGED <<users, ops>>
       ELSE IF email = 0 \/ email = users[id].email
       THEN /\ req' = [Respond(req, "updateUser", 200, "account") EXCEPT !.id = id, !.body = Body(email, TRUE)]
            /\ UNCHANGED <<users, ops>>
       ELSE IF EmailTaken(users, email, id)
       THEN /\ req' = [Fail(req, "updateUser", DuplicateKey) EXCEPT !.id = id, !.body = Body(email, TRUE)]
            /\ UNCHANGED <<users, ops>>
       ELSE /\ users' = [users EXCEPT ![id].email = email]
            /\ ops' = ops + 1
            /\ req' = [Respond(req, "updateUser", 200, "account") EXCEPT !.id = id, !.body = Body(email, TRUE)]
    /\ UNCHANGED <<bootcamps, courses, reviews, tasks, server, now, limiter>>

\* a delete whose filter matches every account
DeleteMany(coll, id, t) ==
    [u \in DOMAIN coll |-> IF coll[u].status = "live" THEN GoneUser(coll[u], t) ELSE coll[u]]

\* user.deleteOne(): the account leaves the collection
DeleteOne(coll, id, t) == [coll EXCEPT ![id] = GoneUser(coll[id], t)]

\* deleteUser without the check of the findById result
DeleteUserUnchecked(id) ==
    /\ Pending("deleteUser")
    /\ IF id = Malformed
       THEN /\ req' = [Fail(req, "deleteUser", CastError) EXCEPT !.id = id]
            /\ UNCHANGED <<users, ops>>
       ELSE IF ~(id \in AccountIds /\ users[id].status = "live")
       THEN /\ req' = [Fail(req, "deleteUser", TypeError) EXCEPT !.id = id]
            /\ UNCHANGED <<users, ops>>
       ELSE /\ users' = DeleteOne(users, id, now)
            /\ ops' = ops + 1
            /\ req' = [Respond(req, "deleteUser", 200, "object") EXCEPT !.id = id]
    /\ UNCHANGED <<bootcamps, courses, reviews, tasks, server, now, limiter>>

\* deleteUser: findById, 404 when there is no such account, deleteOne
DeleteUser(id) ==
    /\ Pending("deleteUser")
    /\ IF id = Malformed
       THEN /\ req' = [Fail(req, "deleteUser", CastError) EXCEPT !.id = id]
            /\ UNCHANGED <<users, ops>>
       ELSE IF ~(id \in AccountIds /\ users[id].status = "live")
       THEN /\ req' = [Fail(req, "deleteUser", ErrorResponse("Resource not found", 404))
                       EXCEPT !.id = id]
            /\ UNCHANGED <<users, ops>>
       ELSE /\ users' = DeleteOne(users, id, now)
            /\ ops' = ops + 1
            /\ req' = [Respond(req, "deleteUser", 200, "object") EXCEPT !.id = id]
    /\ UNCHANGED <<bootcamps, courses, reviews, tasks, server, now, limiter>>

\* ---- controllers/reviews ----
NoSuch(what, id) == ErrorResponse(what \o " with the id of " \o ToString(id), 404)

\* GET /reviews/:id
GetReview(id) ==
    /\ Pending("getReview")
    /\ req' = [(IF id = Malformed THEN Fail(req, "getReview", CastError)
                ELSE IF id \in ChildIds /\ Stored(reviews[id])
                THEN Respond(req, "getReview", 200, "review")
                ELSE Fail(req, "getReview", NoSuch("No review found", id)))
               EXCEPT !.id = id]
    /\ UNCHANGED <<bootcamps, courses, reviews, tasks, ops, server, users, now, limiter>>

\* POST /bootcamps/:b/reviews : the bootcamp is looked up, then Review.create
\* validates the body and inserts under the unique index, and the post-save
\* hook starts the recomputation
AddReview(b, x) ==
    /\ Pending("addReview")
    /\ b \in BootcampIds => Addressed(b)
    /\ IF b = Malformed
       THEN /\ req' = [Fail(req, "addReview", CastError) EXCEPT !.id = b, !.body = Body(x, TRUE)]
            /\ UNCHANGED <<reviews, tasks, ops>>
       ELSE IF ~(b \in BootcampSlots /\ bootcamps[b].exists)
       THEN /\ req' = [Fail(req, "addReview", NoSuch("No bootcamp", b)) EXCEPT !.id = b, !.body = Body(x, TRUE)]
            /\ UNCHANGED <<reviews, tasks, ops>>
       ELSE IF ~ValidRating(x)
       THEN /\ req' = [Fail(req, "addReview", ValidationError("Please add a rating between 1 and 10"))
                       EXCEPT !.id = b, !.body = Body(x, TRUE)]
            /\ UNCHANGED <<reviews, tasks, ops>>
       ELSE IF ~IndexAdmits(reviews, b, req.user.id)
       THEN /\ req' = [Fail(req, "addReview", DuplicateKey) EXCEPT !.id = b, !.body = Body(x, TRUE)]
            /\ UNCHANGED <<reviews, tasks, ops>>
       ELSE LET r == NextId(reviews)
            IN  /\ reviews' = [reviews EXCEPT ![r] =
                        [status |-> "live", bootcamp |-> b, user |-> req.user.id,
                         value |-> x, updated |-> FALSE]]
                /\ tasks' = ReviewPostSave(r, b)
                /\ ops' = ops + 1
                /\ req' = [Respond(req, "addReview", 201, "review") EXCEPT !.id = b, !.body = Body(x, TRUE)]
    /\ UNCHANGED <<bootcamps, courses, server, users, now, limiter>>

\* the ownership gate: the requester wrote the document, or is an administrator
OwnerOrAdmin(doc, user) == doc.user = user.id \/ user.role = "admin"

NotAuthorized == ErrorResponse("Not authorized to access this route", 401)

\* PUT /reviews/:id
PutReview(id, x) ==
    /\ Pending("updateReview")
    /\ IF id = Malformed
       THEN /\ req' = [Fail(req, "updateReview", CastError) EXCEPT !.id = id, !.body = Body(x, TRUE)]
            /\ UNCHANGED <<reviews, tasks, ops>>
       ELSE IF ~(id \in ChildIds /\ Stored(reviews[id]))
       THEN /\ req' = [Fail(req, "updateReview", NoSuch("No review", id)) EXCEPT !.id = id, !.body = Body(x, TRUE)]
            /\ UNCHANGED <<reviews, tasks, ops>>
       ELSE IF ~OwnerOrAdmin(reviews[id], req.user)
       THEN /\ req' = [Fail(req, "updateReview", NotAuthorized) EXCEPT !.id = id, !.body = Body(x, TRUE)]
            /\ UNCHANGED <<reviews, tasks, ops>>
       ELSE IF ~ValidRating(x)
       THEN /\ req' = [Fail(req, "updateReview", ValidationError("Please add a rating between 1 and 10"))
                       EXCEPT !.id = id, !.body = Body(x, TRUE)]
            /\ UNCHANGED <<reviews, tasks, ops>>
       ELSE /\ reviews' = [reviews EXCEPT ![id].value = x, ![id].updated = TRUE]
            /\ tasks' = ReviewPostSave(id, reviews[id].bootcamp)
            /\ ops' = ops + 1
            /\ req' = [Respond(req, "updateReview", 200, "review") EXCEPT !.id = id, !.body = Body(x, TRUE)]
    /\ UNCHANGED <<bootcamps, courses, server, users, now, limiter>>

\* DELETE /reviews/:id : the checks, then review.remove() runs the pre-remove
\* hook ...
DeleteReview(id) ==
    /\ Pending("deleteReview")
    /\ req.id = -1
    /\ IF id = Malformed
       THEN /\ req' = [Fail(req, "deleteReview", CastError) EXCEPT !.id = id]
            /\ UNCHANGED <<reviews, tasks, ops>>
       ELSE IF ~(id \in ChildIds /\ Stored(reviews[id]))
       THEN /\ req' = [Fail(req, "deleteReview", NoSuch("No review", id)) EXCEPT !.id = id]
            /\ UNCHANGED <<reviews, tasks, ops>>
       ELSE IF ~OwnerOrAdmin(reviews[id], req.user)
       THEN /\ req' = [Fail(req, "deleteReview", NotAuthorized) EXCEPT !.id = id]
            /\ UNCHANGED <<reviews, tasks, ops>>
       ELSE /\ reviews' = [reviews EXCEPT ![id].status = "removing"]
            /\ tasks' = ReviewPreRemove(id, reviews[id].bootcamp)
            /\ ops' = ops + 1
            /\ req' = [req EXCEPT !.id = id]
    /\ UNCHANGED <<bootcamps, courses, server, users, now, limiter>>

\* ... and once the delete has reached the store the handler answers
DeleteReviewDone ==
    /\ Pending("deleteReview")
    /\ req.id # -1
    /\ reviews' = [reviews EXCEPT ![req.id] = GoneChild("removed")]
    /\ req' = Respond(req, "deleteReview", 200, "object")
    /\ UNCHANGED <<bootcamps, courses, tasks, ops, server, users, now, limiter>>

\* ---- the public reads of bootcamps and courses ----
\* GET /bootcamps/:id
GetBootcamp(id) ==
    /\ Pending("getBootcamp")
    /\ req' = [(IF id = Malformed THEN Fail(req, "getBootcamp", CastError)
                ELSE IF id \in BootcampIds /\ bootcamps[id].exists
                THEN Respond(req, "getBootcamp", 200, "bootcamp")
                ELSE Fail(req, "getBootcamp",
                          ErrorResponse("Bootcamp not found with id of " \o ToString(id), 404)))
               EXCEPT !.id = id]
    /\ UNCHANGED <<bootcamps, courses, reviews, tasks, ops, server, users, now, limiter>>

\* GET /courses/:id
GetCourse(id) ==
    /\ Pending("getCourse")
    /\ req' = [(IF id = Malformed THEN Fail(req, "getCourse", CastError)
                ELSE IF id \in ChildIds /\ Stored(courses[id])
                THEN Respond(req, "getCourse", 200, "course")
                ELSE Fail(req, "getCourse", NoSuch("No course", id)))
               EXCEPT !.id = id]
    /\ UNCHANGED <<bootcamps, courses, reviews, tasks, ops, server, users, now, limiter>>

\* ---- controllers/bootcamps ----
Published(user) == {b \in BootcampSlots : bootcamps[b].exists /\ bootcamps[b].user = user}

NewBootcampId == CHOOSE b \in BootcampSlots \ BootcampIds :
    ~bootcamps[b].exists /\ \A c \in BootcampSlots \ BootcampIds : ~bootcamps[c].exists => b <= c

AlreadyPublished(user) ==
    ErrorResponse("The user with ID " \o ToString(user) \o " has already published a bootcamp", 400)

\* a handler that lets a publisher publish any number of bootcamps
CreateBootcampUnchecked(body, complete) ==
    /\ Pending("createBootcamp")
    /\ IF ~complete
       THEN /\ req' = [Fail(req, "createBootcamp", ValidationError("Please add a name"))
                       EXCEPT !.body = Body(body, complete)]
            /\ UNCHANGED <<bootcamps, ops>>
       ELSE /\ \E b \in BootcampSlots \ BootcampIds : ~bootcamps[b].exists
            /\ bootcamps' = [bootcamps EXCEPT ![NewBootcampId] =
                    [NewBootcamp EXCEPT !.user = req.user.id, !.housing = body.housing]]
            /\ ops' = ops + 1
            /\ req' = [Respond(req, "createBootcamp", 201, "bootcamp")
                       EXCEPT !.id = NewBootcampId, !.body = Body(body, complete)]
    /\ UNCHANGED <<courses, reviews, tasks, server, users, now, limiter>>

\* POST /bootcamps : the requester becomes the bootcamp's user; a publisher
\* who has published a bootcamp is refused, an administrator is not; then
\* Bootcamp.create validates the body and inserts
CreateBootcamp(body, complete) ==
    /\ Pending("createBootcamp")
    /\ IF Published(req.user.id) # {} /\ req.user.role # "admin"
       THEN /\ req' = [Fail(req, "createBootcamp", AlreadyPublished(req.user.id))
                       EXCEPT !.body = Body(body, complete)]
            /\ UNCHANGED <<bootcamps, ops>>
       ELSE IF ~complete
       THEN /\ req' = [Fail(req, "createBootcamp", ValidationError("Please add a name"))
                       EXCEPT !.body = Body(body, complete)]
            /\ UNCHANGED <<bootcamps, ops>>
       ELSE /\ \E b \in BootcampSlots \ BootcampIds : ~bootcamps[b].exists
            /\ bootcamps' = [bootcamps EXCEPT ![NewBootcampId] =
                    [NewBootcamp EXCEPT !.user = req.user.id, !.housing = body.housing]]
            /\ ops' = ops + 1
            /\ req' = [Respond(req, "createBootcamp", 201, "bootcamp")
                       EXCEPT !.id = NewBootcampId, !.body = Body(body, complete)]
    /\ UNCHANGED <<courses, reviews, tasks, server, users, now, limiter>>

\* an update that writes every field of the body, the aggregates included
UpdateBootcampWhole(id, body) ==
    /\ Pending("updateBootcamp")
    /\ id \in BootcampIds => Addressed(id)
    /\ IF id = Malformed
       THEN /\ req' = [Fail(req, "updateBootcamp", CastError) EXCEPT !.id = id, !.body = Body(body, TRUE)]
            /\ UNCHANGED <<bootcamps, ops>>
       ELSE IF ~(id \in BootcampSlots /\ bootcamps[id].exists)
       THEN /\ req' = [Fail(req, "updateBootcamp",
                            ErrorResponse("Bootcamp not found with id of " \o ToString(id), 404))
                       EXCEPT !.id = id, !.body = Body(body, TRUE)]
            /\ UNCHANGED <<bootcamps, ops>>
       ELSE IF ~OwnerOrAdmin(bootcamps[id], req.user)
       THEN /\ req' = [Fail(req, "updateBootcamp", NotAuthorized) EXCEPT !.id = id, !.body = Body(body, TRUE)]
            /\ UNCHANGED <<bootcamps, ops>>
       ELSE /\ bootcamps' = [bootcamps EXCEPT ![id].housing = body.housing,
                                              ![id].averageCost = body.averageCost,
                                              ![id].averageRating = body.averageRating]
            /\ ops' = ops + 1
            /\ req' = [Respond(req, "updateBootcamp", 200, "bootcamp")
                       EXCEPT !.id = id, !.body = Body(body, TRUE)]
    /\ UNCHANGED <<courses, reviews, tasks, server, users, now, limiter>>

\* PUT /bootcamps/:id : the bootcamp is looked up, the ownership gate, then
\* the client's fields of the body are written
UpdateBootcamp(id, body) ==
    /\ Pending("updateBootcamp")
    /\ id \in BootcampIds => Addressed(id)
    /\ IF id = Malformed
       THEN /\ req' = [Fail(req, "updateBootcamp", CastError) EXCEPT !.id = id, !.body = Body(body, TRUE)]
            /\ UNCHANGED <<bootcamps, ops>>
       ELSE IF ~(id \in BootcampSlots /\ bootcamps[id].exists)
       THEN /\ req' = [Fail(req, "updateBootcamp",
                            ErrorResponse("Bootcamp not found with id of " \o ToString(id), 404))
                       EXCEPT !.id = id, !.body = Body(body, TRUE)]
            /\ UNCHANGED <<bootcamps, ops>>
       ELSE IF ~OwnerOrAdmin(bootcamps[id], req.user)
       THEN /\ req' = [Fail(req, "updateBootcamp", NotAuthorized) EXCEPT !.id = id, !.body = Body(body, TRUE)]
            /\ UNCHANGED <<bootcamps, ops>>
       ELSE /\ bootcamps' = [bootcamps EXCEPT ![id].housing = body.housing]
            /\ ops' = ops + 1
            /\ req' = [Respond(req, "updateBootcamp", 200, "bootcamp")
                       EXCEPT !.id = id, !.body = Body(body, TRUE)]
    /\ UNCHANGED <<courses, reviews, tasks, server, users, now, limiter>>

\* ---- controllers/courses ----
\* a handler that creates the course without looking the bootcamp up
AddCourseUnchecked(b, t) ==
    /\ Pending("addCourse")
    /\ b \in BootcampIds => Addressed(b)
    /\ IF b = Malformed
       THEN /\ req' = [Fail(req, "addCourse", CastError) EXCEPT !.id = b, !.body = Body(t, TRUE)]
            /\ UNCHANGED <<courses, tasks, ops>>
       ELSE LET c == NextId(courses)
            IN  /\ courses' = [courses EXCEPT ![c] =
                        [status |-> "live", bootcamp |-> b, user |-> req.user.id,
                         value |-> t, updated |-> FALSE]]
                /\ tasks' = CoursePostSave(c, b)
                /\ ops' = ops + 1
                /\ req' = [Respond(req, "addCourse", 201, "course") EXCEPT !.id = b, !.body = Body(t, TRUE)]
    /\ UNCHANGED <<bootcamps, reviews, server, users, now, limiter>>

\* POST /bootcamps/:b/courses : the bootcamp is looked up, the ownership
\* gate, then Course.create inserts and the post-save hook starts the
\* recomputation
AddCourse(b, t) ==
    /\ Pending("addCourse")
    /\ b \in BootcampIds => Addressed(b)
    /\ IF b = Malformed
       THEN /\ req' = [Fail(req, "addCourse", CastError) EXCEPT !.id = b, !.body = Body(t, TRUE)]
            /\ UNCHANGED <<courses, tasks, ops>>
       ELSE IF ~(b \in BootcampSlots /\ bootcamps[b].exists)
       THEN /\ req' = [Fail(req, "addCourse", NoSuch("No bootcamp", b)) EXCEPT !.id = b, !.body = Body(t, TRUE)]
            /\ UNCHANGED <<courses, tasks, ops>>
       ELSE IF ~OwnerOrAdmin(bootcamps[b], req.user)
       THEN /\ req' = [Fail(req, "addCourse", NotAuthorized) EXCEPT !.id = b, !.body = Body(t, TRUE)]
            /\ UNCHANGED <<courses, tasks, ops>>
       ELSE LET c == NextId(courses)
            IN  /\ courses' = [courses EXCEPT ![c] =
                        [status |-> "live", bootcamp |-> b, user |-> req.user.id,
                         value |-> t, updated |-> FALSE]]
                /\ tasks' = CoursePostSave(c, b)
                /\ ops' = ops + 1
                /\ req' = [Respond(req, "addCourse", 201, "course") EXCEPT !.id = b, !.body = Body(t, TRUE)]
    /\ UNCHANGED <<bootcamps, reviews, server, users, now, limiter>>

\* ---- storage faults in the handlers ----
\* the handlers of the users controller that await a query
Querying == {"getUser", "createUser", "updateUser", "deleteUser"}

\* the awaited query rejects: asyncHandler hands the error to next()
QueryFails(message) ==
    /\ \E stage \in Querying :
         /\ Pending(stage)
         /\ req' = Fail(req, stage, DriverError(message))
    /\ UNCHANGED <<bootcamps, courses, reviews, tasks, ops, server, users, now, limiter>>

\* the users router, with the clock
NextUsers ==
    \/ \E op \in UsersOps, tok \in Presentable : Arrive("users", op, tok)
    \/ Tick
    \/ Protect
    \/ Authorize
    \/ AdvancedResults(NaN, NaN)
    \/ GetUsers
    \/ \E id \in PathIds(AccountIds) : GetUser(id)
    \/ \E email \in Emails, role \in {"user", "publisher"}, password \in BOOLEAN :
           CreateUser(email, role, password)
    \/ \E id \in PathIds(AccountIds), email \in {0} \cup Emails : UpdateUser(id, email)
    \/ \E id \in PathIds(AccountIds) : DeleteUser(id)

SpecUsers == Init /\ [][NextUsers]_vars

\* the listing of the accounts under every page window, while accounts are
\* created and deleted
NextPager ==
    \/ \E op \in {"list", "create", "delete"}, tok \in Presentable : Arrive("users", op, tok)
    \/ Protect
    \/ Authorize
    \/ \E page \in PageParams, limit \in LimitParams : AdvancedResults(page, limit)
    \/ GetUsers
    \/ \E email \in Emails, role \in {"user", "publisher"}, password \in BOOLEAN :
           CreateUser(email, role, password)
    \/ \E id \in PathIds(AccountIds) : DeleteUser(id)

SpecPager == Init /\ [][NextPager]_vars

\* the requests of an origin through the application, window after window
NextLimiter ==
    \/ \E ip \in Origins, route \in AppRoutes, tok \in Presentable :
           Receive(ip, route[1], route[2], tok)
    \/ Minute
    \/ Limiter
    \/ Static
    \/ Protect
    \/ Authorize
    \/ AdvancedResults(NaN, NaN)
    \/ GetUsers
    \/ \E id \in PathIds(BootcampIds) : GetBootcamp(id)

SpecLimiter == Init /\ [][NextLimiter]_vars

\* publishing: bootcamps are created and updated, courses and reviews are
\* created under them, and the recomputations run in the background
PublishRoutes ==
    {<<"bootcamps", "create">>, <<"bootcamps", "update">>, <<"courses", "create">>,
     <<"reviews", "create">>}

NextPublish ==
    \/ \E route \in PublishRoutes, tok \in Presentable : Arrive(route[1], route[2], tok)
    \/ Protect
    \/ Authorize
    \/ \E body \in BootcampBodies, complete \in BOOLEAN : CreateBootcamp(body, complete)
    \/ \E id \in PathIds(BootcampSlots), body \in BootcampBodies : UpdateBootcamp(id, body)
    \/ \E b \in PathIds(BootcampSlots), t \in CourseBodies : AddCourse(b, t)
    \/ \E b \in PathIds(BootcampSlots) : AddReview(b, MaxRating)
    \/ \E i \in TaskIds : TaskRead(i)
    \/ \E i \in TaskIds : TaskWrite(i)

SpecPublish == InitWith(SeedWithPublisher) /\ [][NextPublish]_vars

\* the users router when storage calls may fail
NextUsersF ==
    \/ \E op \in UsersOps, tok \in Presentable : Arrive("users", op, tok)
    \/ Protect
    \/ Authorize
    \/ AdvancedResults(NaN, NaN)
    \/ GetUsers
    \/ \E id \in PathIds(AccountIds) : GetUser(id)
    \/ \E email \in Emails, role \in {"user", "publisher"}, password \in BOOLEAN :
           CreateUser(email, role, password)
    \/ \E id \in PathIds(AccountIds), email \in {0} \cup Emails : UpdateUser(id, email)
    \/ \E id \in PathIds(AccountIds) : DeleteUser(id)
    \/ \E message \in DriverMessages : QueryFails(message)

SpecUsersF == Init /\ [][NextUsersF]_vars

\* every router, at one clock time, with the recomputations in the background
NextApi ==
    \/ \E route \in Routes, tok \in Presentable : Arrive(route[1], route[2], tok)
    \/ Protect
    \/ Authorize
    \/ AdvancedResults(NaN, NaN)
    \/ GetUsers
    \/ \E id \in PathIds(AccountIds) : GetUser(id)
    \/ \E email \in Emails, role \in {"user", "publisher"}, password \in BOOLEAN :
           CreateUser(email, role, password)
    \/ \E id \in PathIds(AccountIds), email \in {0} \cup Emails : UpdateUser(id, email)
    \/ \E id \in PathIds(AccountIds) : DeleteUser(id)
    \/ \E id \in PathIds(ChildIds) : GetReview(id)
    \/ \E b \in PathIds(BootcampIds), x \in ReviewBodies : AddReview(b, x)
    \/ \E id \in PathIds(ChildIds), x \in ReviewBodies : PutReview(id, x)
    \/ \E id \in PathIds(ChildIds) : DeleteReview(id)
    \/ DeleteReviewDone
    \/ \E id \in PathIds(BootcampIds) : GetBootcamp(id)
    \/ \E id \in PathIds(ChildIds) : GetCourse(id)
    \/ \E i \in TaskIds : TaskRead(i)
    \/ \E i \in TaskIds : TaskWrite(i)

SpecApi == Init /\ [][NextApi]_vars

\* ---- vocabulary of the properties ----
InFlight(i) == tasks[i].pc \in {"read", "write"}

\* no request and no recomputation is under way
Quiescent ==
    /\ \A i \in TaskIds : ~InFlight(i)
    /\ \A c \in ChildIds : courses[c].status # "removing"
    /\ \A r \in ChildIds : reviews[r].status \notin {"pending", "removing"}

\* nothing under way concerns bootcamp b
Settled(b) ==
    /\ \A i \in TaskIds : InFlight(i) => tasks[i].bootcamp # b
    /\ \A c \in ChildIds : courses[c].status = "removing" => courses[c].bootcamp # b
    /\ \A r \in ChildIds : reviews[r].status \in {"pending", "removing"} => reviews[r].bootcamp # b

CoursesOf(b) == {c \in ChildIds : Stored(courses[c]) /\ courses[c].bootcamp = b}
ReviewsOf(b) == {r \in ChildIds : Stored(reviews[r]) /\ reviews[r].bootcamp = b}

\* v is the smallest multiple of 10 that is at least the mean of the values of ids
IsCeilTenOfMean(v, coll, ids) ==
    /\ v % 10 = 0
    /\ v * Cardinality(ids) >= SumOver(coll, ids)
    /\ (v - 10) * Cardinality(ids) < SumOver(coll, ids)

\* the fraction q is the mean of the values of ids
IsMean(q, coll, ids) ==
    /\ q[2] > 0
    /\ q[1] * Cardinality(ids) = SumOver(coll, ids) * q[2]

CostConsistent(bcs, b) ==
    IF CoursesOf(b) = {} THEN bcs[b].averageCost = {}
    ELSE /\ Cardinality(bcs[b].averageCost) = 1
         /\ \A v \in bcs[b].averageCost : IsCeilTenOfMean(v, courses, CoursesOf(b))

RatingConsistent(bcs, b) ==
    IF ReviewsOf(b) = {} THEN bcs[b].averageRating = {}
    ELSE /\ Cardinality(bcs[b].averageRating) = 1
         /\ \A q \in bcs[b].averageRating : IsMean(q, reviews, ReviewsOf(b))

\* task i completes its write in this step
Writes(i) == tasks[i].pc = "write" /\ tasks'[i].pc = "done"

\* what task i read is what the aggregation would return now
UpToDate(i) == tasks[i].obj = Aggregate(Collection(tasks[i].kind), tasks[i].bootcamp)

\* ---- C1 ----
\* C1: for every bootcamp, averageCost is the mean tuition of the courses that
\* reference it now, rounded up to a multiple of 10, averageRating is the mean
\* rating of the reviews that reference it now, and each is absent when there
\* is no such child.  Read in its weakest form: in the states where no request
\* and no recomputation concerning that bootcamp is under way.
C1_AggregatesEqualMean ==
    \A b \in BootcampIds :
        (bootcamps[b].exists /\ Settled(b)) =>
            (CostConsistent(bootcamps, b) /\ RatingConsistent(bootcamps, b))

\* ---- C2 ----
\* C2: once every request and recomputation has completed, a bootcamp with no
\* course has no averageCost and a bootcamp with no review has no
\* averageRating.
C2_AbsentWhenNoChildren ==
    Quiescent =>
        \A b \in BootcampIds :
            bootcamps[b].exists =>
                /\ (CoursesOf(b) = {} => bootcamps[b].averageCost = {})
                /\ (ReviewsOf(b) = {} => bootcamps[b].averageRating = {})

\* ---- C3 ----
\* C3: whatever the interleaving of creations, removals and recomputations,
\* once all of them have completed the stored aggregates are the ones derived
\* from the final children.
C3_SelfHeals ==
    Quiescent =>
        \A b \in BootcampIds :
            bootcamps[b].exists =>
                /\ (CoursesOf(b) # {} => CostConsistent(bootcamps, b))
                /\ (ReviewsOf(b) # {} => RatingConsistent(bootcamps, b))

\* ---- C4 ----
\* C4: when getAverageCost writes for a non-empty set of courses, the value it
\* stores in averageCost is the smallest multiple of 10 that is at least the
\* mean of their tuitions.
C4_CostIsCeilTenOfMean ==
    [][\A i \in TaskIds :
          (/\ Writes(i)
           /\ tasks[i].kind = "cost"
           /\ UpToDate(i)
           /\ bootcamps[tasks[i].bootcamp].exists
           /\ CoursesOf(tasks[i].bootcamp) # {})
          => CostConsistent(bootcamps', tasks[i].bootcamp)]_vars

\* costs [12, 18] have been averaged and 20 is stored
C4_Witness ==
    \E b \in BootcampIds :
        /\ Settled(b)
        /\ Cardinality(CoursesOf(b)) = 2
        /\ {courses[c].value : c \in CoursesOf(b)} = {12, 18}
        /\ bootcamps[b].averageCost = {20}

\* ---- C5 ----
\* C5: when getAverageRating writes for a non-empty set of reviews, the value
\* it stores in averageRating is their mean, sum over count, not rounded.
C5_RatingIsMean ==
    [][\A i \in TaskIds :
          (/\ Writes(i)
           /\ tasks[i].kind = "rating"
           /\ UpToDate(i)
           /\ bootcamps[tasks[i].bootcamp].exists
           /\ ReviewsOf(tasks[i].bootcamp) # {})
          => RatingConsistent(bootcamps', tasks[i].bootcamp)]_vars

\* ratings 1 and 6 have been averaged and 7/2 is stored
C5_Witness ==
    \E b \in BootcampIds :
        /\ Settled(b)
        /\ Cardinality(ReviewsOf(b)) = 2
        /\ {reviews[r].value : r \in ReviewsOf(b)} = {1, 6}
        /\ bootcamps[b].averageRating = {<<7, 2>>}

\* ---- C6 ----
\* C6: every creation, update and removal of a course or review starts a
\* recomputation on its bootcamp, and once a course's tuition has been updated
\* and all the work has completed, averageCost is the one derived from the
\* courses with the updated tuition.
StartsTaskOn(kind, b) ==
    \E i \in TaskIds :
        /\ tasks[i].pc = "idle"
        /\ tasks'[i].pc = "read"
        /\ tasks'[i].kind = kind
        /\ tasks'[i].bootcamp = b

\* the step inserts the document, updates it, or takes its removal in hand
Mutated(old, new) ==
    \/ ~Stored(old) /\ Stored(new)
    \/ old.status = "live" /\ new.status = "removing"
    \/ Stored(old) /\ new.status = old.status /\ new.updated /\ new # old

C6_MutationsRecompute ==
    /\ [][\A x \in ChildIds :
            /\ Mutated(courses[x], courses'[x]) =>
                 StartsTaskOn("cost", IF Stored(courses[x]) THEN courses[x].bootcamp ELSE courses'[x].bootcamp)
            /\ Mutated(reviews[x], reviews'[x]) =>
                 StartsTaskOn("rating", IF Stored(reviews[x]) THEN reviews[x].bootcamp ELSE reviews'[x].bootcamp)]_vars
    /\ [](Quiescent =>
            \A c \in ChildIds :
                (Stored(courses[c]) /\ courses[c].updated /\ bootcamps[courses[c].bootcamp].exists)
                => CostConsistent(bootcamps, courses[c].bootcamp))

\* ---- C7 ----
\* C7: a recomputation is under way only if the creation or removal that
\* triggered it has been committed: the created document is in the collection
\* or was there, the removed document is no longer there.
C7_StartedAfterCommit ==
    \A i \in TaskIds :
        InFlight(i) =>
            LET doc == Collection(tasks[i].kind)[tasks[i].doc]
            IN  /\ tasks[i].hook = "save" => doc.status \in {"live", "removing", "removed"}
                /\ tasks[i].hook = "remove" => doc.status = "removed"

\* ---- C8 ----
\* C8: when a recomputation cannot complete, the failure is logged and nothing
\* else happens: the server keeps running and the document whose hook started
\* the recomputation is as its request left it.
C8_FailureOnlyLogged ==
    \A i \in TaskIds :
        tasks[i].pc \in {"rejected", "logged"} =>
            /\ server = "running"
            /\ Collection(tasks[i].kind)[tasks[i].doc].status \in {"live", "removing", "removed"}

\* ---- C9 ----
\* C9: a recomputation that runs when the bootcamp already holds the result of
\* a run over the same children (a second run in a row, or the later of two
\* overlapping runs) leaves every bootcamp as it is.
AlreadyRecomputed(i) ==
    IF tasks[i].kind = "cost"
    THEN CostConsistent(bootcamps, tasks[i].bootcamp)
    ELSE RatingConsistent(bootcamps, tasks[i].bootcamp)

C9_Idempotent ==
    [][\A i \in TaskIds :
          (Writes(i) /\ UpToDate(i) /\ bootcamps[tasks[i].bootcamp].exists /\ AlreadyRecomputed(i))
          => bootcamps' = bootcamps]_vars

\* a run over the children of a bootcamp has read them and is about to write,
\* while the bootcamp holds the result of an earlier run over the same children
C9_Witness ==
    \E i \in TaskIds :
        /\ tasks[i].pc = "write"
        /\ Len(tasks[i].obj) > 0
        /\ UpToDate(i)
        /\ bootcamps[tasks[i].bootcamp].exists
        /\ AlreadyRecomputed(i)

\* ---- C10 ----
\* C10: the Review collection never holds two reviews with the same user and
\* the same bootcamp.
C10_OneReviewPerUserAndBootcamp ==
    \A r1, r2 \in ChildIds :
        (r1 # r2 /\ Stored(reviews[r1]) /\ Stored(reviews[r2])) =>
            ~(reviews[r1].user = reviews[r2].user /\ reviews[r1].bootcamp = reviews[r2].bootcamp)

\* a second review of the same user for the same bootcamp has been refused
C10_Witness ==
    \E r1, r2 \in ChildIds :
        /\ reviews[r1].status = "live"
        /\ reviews[r2].status = "duplicate"

\* ---- vocabulary of the request properties ----
\* the stage runs in this step
Runs(stage) == Pending(stage) /\ req' # req

\* no collection changes and no recomputation starts in this step
StoreUnchanged == UNCHANGED <<bootcamps, courses, reviews, tasks, users>>

\* the response of this step is the failure with this status and message
Answers(status, error) ==
    /\ req'.status = status
    /\ ~req'.success
    /\ req'.error = error
    /\ req'.data = "none"

\* ---- C11 ----
\* C11: a write that a uniqueness constraint rejects (a second review of the
\* same account for the same bootcamp, an account created with the email of
\* another, an email changed to the one of another account) is answered with
\* status 400 and {success: false, error: "Duplicate field value entered"},
\* and it leaves the collections and the aggregates as they were.
SecondReview ==
    /\ Runs("addReview")
    /\ req'.id \in BootcampIds
    /\ bootcamps[req'.id].exists
    /\ req'.body.value >= MinRating
    /\ req'.body.value <= MaxRating
    /\ \E r \in ChildIds :
         Stored(reviews[r]) /\ reviews[r].bootcamp = req'.id /\ reviews[r].user = req.user.id

EmailOfAnother(email, self) ==
    \E u \in AccountIds \ {self} : users[u].status = "live" /\ users[u].email = email

CreatesWithKnownEmail ==
    /\ Runs("createUser")
    /\ req'.body.complete
    /\ EmailOfAnother(req'.body.value, 0)

UpdatesToKnownEmail ==
    /\ Runs("updateUser")
    /\ req'.id \in AccountIds
    /\ users[req'.id].status = "live"
    /\ req'.body.value # 0
    /\ EmailOfAnother(req'.body.value, req'.id)

C11_DuplicateRejected ==
    [][(SecondReview \/ CreatesWithKnownEmail \/ UpdatesToKnownEmail)
          => (Answers(400, "Duplicate field value entered") /\ StoreUnchanged)]_vars

\* the second review of an account for a bootcamp has been answered
C11_Witness ==
    /\ req.res = "reviews"
    /\ req.op = "create"
    /\ req.status = 400
    /\ req.error = "Duplicate field value entered"
    /\ \E r \in ChildIds :
         Stored(reviews[r]) /\ reviews[r].bootcamp = req.id /\ reviews[r].user = req.user.id

\* ---- C12 ----
\* C12: on every route with an identifier in its path, a handler that looks
\* up an identifier the store cannot cast answers 404 with {success: false,
\* error: "Resource not found"} (not 400, not 500) and changes nothing stored.
LooksUp(id) == req.status = 0 /\ req.id = -1 /\ req'.id = id

C12_MalformedIsNotFound ==
    [][LooksUp(Malformed) => (Answers(404, "Resource not found") /\ StoreUnchanged)]_vars

\* a review posted under the bootcamp identifier "12345" has been answered
C12_Witness ==
    /\ req.res = "reviews"
    /\ req.op = "create"
    /\ req.id = Malformed
    /\ req.status = 404
    /\ req.error = "Resource not found"

\* ---- C13 ----
\* the identifier resolves to a document of the resource
Resolves(res, id) ==
    CASE res = "users" -> id \in AccountIds /\ users[id].status = "live"
      [] res = "reviews" -> id \in ChildIds /\ Stored(reviews[id])
      [] res = "courses" -> id \in ChildIds /\ Stored(courses[id])
      [] res = "bootcamps" -> id \in BootcampIds /\ bootcamps[id].exists

\* a get, update or delete looks up a well-formed identifier that no record has
LooksUpMissing ==
    /\ req.op \in {"get", "update", "delete"}
    /\ \E id \in PathIds(AccountIds) \cup PathIds(ChildIds) \cup PathIds(BootcampIds) :
         id # Malformed /\ LooksUp(id) /\ ~Resolves(req.res, id)

\* C13, as stated: for bootcamps, courses, reviews and users, every get, update
\* or delete by a well-formed identifier that resolves to no record is
\* answered 404 with success false.
C13_MissingIsNotFound ==
    [][LooksUpMissing => (req'.status = 404 /\ ~req'.success)]_vars

\* C13, amended: such a request is answered 404 with success false, except
\* GET /users/:id and PUT /users/:id, which answer 200 with success true and
\* data null; in both cases nothing stored changes.
C13_MissingIsNotFoundButUsers ==
    [][LooksUpMissing =>
          /\ StoreUnchanged
          /\ IF req.res = "users" /\ req.op \in {"get", "update"}
             THEN req'.status = 200 /\ req'.success /\ req'.data = "null"
             ELSE req'.status = 404 /\ ~req'.success /\ req'.data = "none"]_vars

\* DELETE /users/:id for an identifier of no account has been answered 404
C13_Witness ==
    /\ req.res = "users"
    /\ req.op = "delete"
    /\ req.id \notin {-1, Malformed}
    /\ ~Resolves("users", req.id)
    /\ req.status = 404
    /\ req.error = "Resource not found"

\* ---- C14 ----
\* C14: GET /users/:id and PUT /users/:id of an administrator, with a
\* well-formed identifier that matches no account, answer 200 with success
\* true and data null, and the PUT creates and changes no account.
AdminLooksUpNoAccount ==
    /\ req.res = "users"
    /\ req.op \in {"get", "update"}
    /\ req.user.role = "admin"
    /\ \E id \in PathIds(AccountIds) \ {Malformed} :
         LooksUp(id) /\ ~(id \in AccountIds /\ users[id].status = "live")

C14_NullForNoAccount ==
    [][AdminLooksUpNoAccount =>
          /\ req'.status = 200
          /\ req'.success
          /\ req'.data = "null"
          /\ req'.error = ""
          /\ users' = users]_vars

\* PUT /users/:id with an email in the body, for an identifier of no account,
\* has been answered
C14_Witness ==
    /\ req.res = "users"
    /\ req.op = "update"
    /\ req.user.role = "admin"
    /\ req.id \in PathIds(AccountIds) \ {Malformed}
    /\ ~(req.id \in AccountIds /\ users[req.id].status = "live")
    /\ req.body.value # 0
    /\ req.status = 200
    /\ req.data = "null"

\* ---- C15 ----
\* C15: on every route of the users resource (list, get, create, update,
\* delete), a request authenticated as an account whose role is not admin is
\* answered 403 with "User role <role> is not authorized to access this
\* route", <role> being the role of that account; no handler runs for it, no
\* account is put in the response, and no account is created, changed or
\* deleted.
NonAdmin == req.res = "users" /\ req.user # NoUser /\ req.user.role # "admin"

C15_NonAdminForbidden ==
    /\ [](NonAdmin =>
            /\ \A i \in 1..Len(req.ran) : req.ran[i] \in {"protect", "authorize"}
            /\ req.status \in {0, 403}
            /\ req.data = "none"
            /\ req.id = -1)
    /\ [][(NonAdmin /\ req.status = 0 /\ req' # req) =>
            /\ req'.status = 403
            /\ ~req'.success
            /\ req'.error = "User role " \o req.user.role \o " is not authorized to access this route"
            /\ req'.ran = <<"protect", "authorize">>
            /\ users' = users]_vars

\* the role gate has turned away a reviewer who asked to delete an account
C15_Witness ==
    /\ req.res = "users"
    /\ req.op = "delete"
    /\ req.user.role = "user"
    /\ req.status = 403
    /\ req.error = "User role user is not authorized to access this route"

\* ---- C16 ----
\* the first middleware of the request's route runs in this step
EntersChain == req.res # "none" /\ req.status = 0 /\ req.ran = <<>> /\ req' # req

\* no bearer token, a token whose signature or structure is invalid, or a
\* token past its expiry at time t
Unauthenticated(tok, t) == tok = NoBearer \/ tok.sig # "secret" \/ t >= tok.exp

\* the request ends in protect: 401, nobody attached, nothing else has run
TurnedAway ==
    /\ Answers(401, "Not authorized to access this route")
    /\ req'.user = NoUser
    /\ req'.ran = <<"protect">>
    /\ req'.id = -1
    /\ StoreUnchanged

\* C16: a request to an authenticated endpoint without a bearer token, or with
\* a token that is invalid or expired, is answered 401 with "Not authorized
\* to access this route"; no account is attached to it and no handler runs.
C16_NoTokenUnauthorized ==
    [][(EntersChain /\ ~Public(req.res, req.op) /\ Unauthenticated(req.token, now))
          => TurnedAway]_vars

\* a request without a token to the users resource has been answered
C16_Witness ==
    /\ req.res = "users"
    /\ req.token = NoBearer
    /\ req.status = 401
    /\ req.error = "Not authorized to access this route"
    /\ req.user = NoUser

\* ---- C17 ----
\* C17: a token is issued to an account, the account is deleted, and the
\* token, not yet expired, is presented to an authenticated endpoint: the
\* request gets the 401 "Not authorized to access this route" of a request
\* without a token; it is not authenticated and reaches neither the role gate
\* nor a handler.
TokenOfDeleted(tok, t) ==
    /\ tok.sig = "secret"
    /\ t < tok.exp
    /\ users[tok.sub].status = "gone"
    /\ users[tok.sub].born <= tok.exp - TokenLife
    /\ tok.exp - TokenLife <= users[tok.sub].died

C17_DeletedAccountUnauthorized ==
    [][(EntersChain /\ ~Public(req.res, req.op) /\ TokenOfDeleted(req.token, now))
          => TurnedAway]_vars

\* the token of a deleted account, still unexpired, has been turned away
C17_Witness ==
    /\ req.res = "users"
    /\ TokenOfDeleted(req.token, now)
    /\ req.status = 401
    /\ req.ran = <<"protect">>
    /\ req.user = NoUser

\* ---- C18 ----
\* the handler of PUT or DELETE /reviews/:id finds the review id in this step
FindsReview(id) ==
    /\ req.res = "reviews"
    /\ req.op \in {"update", "delete"}
    /\ LooksUp(id)
    /\ Stored(reviews[id])

Owns(id) == reviews[id].user = req.user.id

\* C18: an update or a delete of a review asked by an authenticated account
\* that neither wrote the review nor is an admin is answered 401 with "Not
\* authorized to access this route", and the review, the other documents and
\* the aggregates of its bootcamp stay as they are (no recomputation starts
\* either); asked by the owner or by an admin, the update is applied and
\* answered 200, and the delete is carried out and answered 200.
C18_OwnerOrAdminOnly ==
    [][/\ \A id \in ChildIds :
            FindsReview(id) =>
                IF ~Owns(id) /\ req.user.role # "admin"
                THEN Answers(401, "Not authorized to access this route") /\ StoreUnchanged
                ELSE IF req.op = "delete"
                THEN reviews'[id].status = "removing" /\ req'.status = 0
                ELSE (req'.body.value >= MinRating /\ req'.body.value <= MaxRating) =>
                        /\ req'.status = 200
                        /\ req'.success
                        /\ reviews'[id].value = req'.body.value
       /\ (Runs("deleteReview") /\ req.id # -1) =>
            /\ req'.status = 200
            /\ req'.success
            /\ ~Stored(reviews'[req.id])]_vars

\* a reviewer asked to delete the review of another account and got 401
C18_Witness ==
    /\ req.res = "reviews"
    /\ req.op = "delete"
    /\ req.id \in ChildIds
    /\ Stored(reviews[req.id])
    /\ reviews[req.id].user # req.user.id
    /\ req.user.role = "user"
    /\ req.status = 401
    /\ req.error = "Not authorized to access this route"

\* ---- C19 ----
\* C19: within a request to the users resource, protect has verified the
\* token and attached the account before authorize runs, and both have let
\* the request through before advancedResults or a handler runs; a request
\* that protect answered 401 or authorize answered 403 has reached no later
\* stage.
C19_GatesBeforeHandlers ==
    req.res = "users" =>
        /\ \A i \in 1..Len(req.ran) :
             /\ req.ran[i] = "authorize" =>
                    (i = 2 /\ req.ran[1] = "protect" /\ req.user # NoUser)
             /\ req.ran[i] \notin {"protect", "authorize"} =>
                    /\ i > 2
                    /\ req.ran[1] = "protect"
                    /\ req.ran[2] = "authorize"
                    /\ req.user.role = "admin"
        /\ req.status = 401 => req.ran = <<"protect">>
        /\ req.status = 403 => req.ran = <<"protect", "authorize">>

\* the listing of the accounts has gone through the four stages of its route
C19_Witness ==
    /\ req.res = "users"
    /\ req.ran = <<"protect", "authorize", "advancedResults", "getUsers">>
    /\ req.status = 200

\* ---- C20 ----
\* C20: for every account, a token issued to it verifies to that account at
\* every clock time before its expiry and fails with Expired at every clock
\* time after it, and no token verifies to another account than the one it
\* was issued to; protect attaches an account to a request only as the
\* subject of an unexpired token signed by the server.
C20_TokenRoundTrip ==
    /\ [](\A a \in AccountIds, t \in 0..now :
            LET tok == Issue(a, t)
            IN  /\ now < tok.exp => Verify(tok, now) = [kind |-> "ok", sub |-> a]
                /\ now > tok.exp => Verify(tok, now) = Expired
                /\ Verify(tok, now).kind = "ok" => Verify(tok, now).sub = a)
    /\ [][Runs("protect") =>
            /\ req'.user # NoUser =>
                   /\ req.token.sig = "secret"
                   /\ req'.user.id = req.token.sub
                   /\ now < req.token.exp
            /\ (req.token.sig = "secret" /\ now > req.token.exp) =>
                   (req'.user = NoUser /\ req'.status = 401)]_vars

\* the token of an existing account, presented after its expiry, has been
\* turned away
C20_Witness ==
    /\ req.token.sig = "secret"
    /\ users[req.token.sub].status = "live"
    /\ now > req.token.exp
    /\ req.ran = <<"protect">>
    /\ req.status = 401

\* ---- C21 ----
\* the accounts the listing's filter matches
Total == Cardinality({u \in AccountIds : users[u].status = "live"})

\* the listing of the accounts has been answered
Listed == req.res = "users" /\ req.op = "list" /\ req.status = 200

\* C21: for a listing answered with page p and limit l (1 and 25 when the
\* parameter is absent or not a number) over total accounts, with
\* skip = (p - 1) * l: pagination.next is {page: p + 1, limit: l} if
\* skip + l < total and is omitted otherwise, and pagination.prev is
\* {page: p - 1, limit: l} if p > 1 and is omitted otherwise.
C21_PaginationKeys ==
    Listed =>
        LET p == IF req.query.page = NaN THEN 1 ELSE req.query.page
            l == IF req.query.limit = NaN THEN 25 ELSE req.query.limit
            skip == (p - 1) * l
        IN  /\ req.pagination.next =
                  (IF skip + l < Total THEN {[page |-> p + 1, limit |-> l]} ELSE {})
            /\ req.pagination.prev =
                  (IF p > 1 THEN {[page |-> p - 1, limit |-> l]} ELSE {})

\* the second page of one account each, out of three accounts, has been
\* answered with both keys
C21_Witness ==
    /\ Listed
    /\ req.query = [page |-> 2, limit |-> 1]
    /\ Total = 3
    /\ req.pagination.next = {[page |-> 3, limit |-> 1]}
    /\ req.pagination.prev = {[page |-> 1, limit |-> 1]}

\* ---- C22 ----
\* the text "Too many requests, please try again after <n> seconds."
RetryAfterText(text) ==
    \E n \in 0..60 : text = "Too many requests, please try again after " \o ToString(n) \o " seconds."

\* C22: of the requests an origin sends within one minute, the first 10 are
\* handed on by the limiter and served, and every later one is answered 429
\* with the text "Too many requests, please try again after <n> seconds.".
C22_TenPerMinute ==
    [][\A o \in Origins :
          (Runs("limiter") /\ req.ip = o /\ limiter.minute = 0) =>
              IF limiter.hits[o] < 10
              THEN req'.status = 0
              ELSE req'.status = 429 /\ RetryAfterText(req'.text)]_vars

\* ---- C23 ----
\* the bootcamps the account has published
BootcampsOf(u) == {b \in BootcampSlots : bootcamps[b].exists /\ bootcamps[b].user = u}

\* the error names the requester as having published a bootcamp already
SaysAlreadyPublished(error, u) ==
    error = "The user with ID " \o ToString(u) \o " has already published a bootcamp"

\* C23: an account with the role publisher never has more than one bootcamp,
\* and a creation request of a publisher who has one is answered 400 with an
\* error that says the account "has already published a bootcamp", and
\* creates nothing.
C23_PublisherOneBootcamp ==
    /\ [](\A u \in AccountIds :
            users[u].role = "publisher" => Cardinality(BootcampsOf(u)) <= 1)
    /\ [][(/\ Runs("createBootcamp")
           /\ req.user.role = "publisher"
           /\ BootcampsOf(req.user.id) # {})
          => /\ req'.status = 400
             /\ ~req'.success
             /\ SaysAlreadyPublished(req'.error, req.user.id)
             /\ StoreUnchanged]_vars

\* a publisher with a bootcamp has asked to create another and got 400
C23_Witness ==
    /\ req.res = "bootcamps"
    /\ req.op = "create"
    /\ req.user.role = "publisher"
    /\ req.body.complete
    /\ Cardinality(BootcampsOf(req.user.id)) = 1
    /\ req.status = 400
    /\ SaysAlreadyPublished(req.error, req.user.id)

\* ---- C24 ----
\* C24: a response with status 500, the answer to an error that has no status
\* code and is no cast, duplicate-key or validation error, is {success: false,
\* error: "Server Error"}: the same fixed text whatever the message of the
\* error was.
C24_GenericServerError ==
    req.status = 500 => (~req.success /\ req.error = "Server Error")

\* ---- C25 ----
\* task i is a run of the recomputation of this kind for bootcamp b, and it
\* writes in this step
RecomputationWrites(kind, b) ==
    \E i \in TaskIds : Writes(i) /\ tasks[i].kind = kind /\ tasks[i].bootcamp = b

\* C25: a step changes the averageCost of a bootcamp only if it is the write
\* of getAverageCost for that bootcamp, and its averageRating only if it is
\* the write of getAverageRating for it; in particular a bootcamp is created
\* without them and an update leaves them as they are, whatever the body of
\* the request carries.
C25_AggregatesNotClientWritten ==
    [][/\ \A b \in BootcampSlots :
            /\ bootcamps'[b].averageCost # bootcamps[b].averageCost
                   => RecomputationWrites("cost", b)
            /\ bootcamps'[b].averageRating # bootcamps[b].averageRating
                   => RecomputationWrites("rating", b)
       /\ Runs("createBootcamp") =>
            \A b \in BootcampSlots :
                (bootcamps'[b].exists /\ ~bootcamps[b].exists) =>
                    (bootcamps'[b].averageCost = {} /\ bootcamps'[b].averageRating = {})]_vars

\* an update whose body carries averageCost and averageRating has been applied
\* and answered 200, and the bootcamp holds neither of the two values
C25_Witness ==
    /\ req.res = "bootcamps"
    /\ req.op = "update"
    /\ req.status = 200
    /\ req.body.value.averageCost = {990}
    /\ bootcamps[req.id].housing = req.body.value.housing
    /\ bootcamps[req.id].averageCost # {990}
    /\ bootcamps[req.id].averageRating # {<<MaxRating, 1>>}

\* ---- C26 ----
\* the handler that creates a course or a review runs in this step, for a
\* well-formed bootcamp identifier that matches no bootcamp
CreatesUnderNoBootcamp ==
    /\ Runs("addCourse") \/ Runs("addReview")
    /\ req'.id # Malformed
    /\ ~(req'.id \in BootcampSlots /\ bootcamps[req'.id].exists)

\* the document enters its collection in this step
Inserted(old, new) == ~Stored(old) /\ Stored(new)

\* C26: the creation of a course or a review under a well-formed bootcamp
\* identifier that matches no bootcamp is answered 404 with success false,
\* inserts no course and no review and starts no recomputation; and whenever
\* a course or a review is inserted, the bootcamp it references exists.
C26_NoChildWithoutBootcamp ==
    [][/\ CreatesUnderNoBootcamp =>
            /\ req'.status = 404
            /\ ~req'.success
            /\ StoreUnchanged
       /\ \A x \in ChildIds :
            /\ Inserted(courses[x], courses'[x]) =>
                   (courses'[x].bootcamp \in BootcampSlots /\ bootcamps[courses'[x].bootcamp].exists)
            /\ Inserted(reviews[x], reviews'[x]) =>
                   (reviews'[x].bootcamp \in BootcampSlots /\ bootcamps[reviews'[x].bootcamp].exists)]_vars

\* a publisher asked to create a course under an identifier of no bootcamp
\* and got 404, and no course has been inserted
C26_Witness ==
    /\ req.res = "courses"
    /\ req.op = "create"
    /\ req.user.role = "publisher"
    /\ req.id # Malformed
    /\ ~(req.id \in BootcampSlots /\ bootcamps[req.id].exists)
    /\ req.status = 404
    /\ req.error = "No bootcamp with the id of " \o ToString(req.id)
    /\ \A c \in ChildIds : ~Stored(courses[c])

\* ---- C27 ----
\* C27: for an administrator, DELETE /users/:id with the identifier of an
\* account removes that account, leaves every other account as it is and
\* answers 200 with data {}; with a well-formed identifier that matches no
\* account (one never given, or the one of an account deleted before) it
\* answers 404 "Resource not found" and leaves every account as it is.
C27_DeleteUserOnceThenNotFound ==
    [][(Runs("deleteUser") /\ req.user.role = "admin" /\ req'.id # Malformed) =>
          IF req'.id \in AccountIds /\ users[req'.id].status = "live"
          THEN /\ req'.status = 200
               /\ req'.success
               /\ req'.data = "object"
               /\ users'[req'.id].status = "gone"
               /\ \A u \in AccountIds \ {req'.id} : users'[u] = users[u]
          ELSE /\ Answers(404, "Resource not found")
               /\ users' = users]_vars

\* the second DELETE of the same account has been answered 404
C27_Witness ==
    /\ req.res = "users"
    /\ req.op = "delete"
    /\ req.user.role = "admin"
    /\ req.id \in AccountIds
    /\ users[req.id].status = "gone"
    /\ req.status = 404
    /\ req.error = "Resource not found"

\* ---- C28 ----
\* task i completes its aggregation query in this step
Reads(i) == tasks[i].pc = "read" /\ tasks'[i].pc = "write"

\* the bootcamp document but for one of its fields
Without(doc, field) == [f \in DOMAIN doc \ {field} |-> doc[f]]

\* C28: a run of getAverageCost(b) or getAverageRating(b) changes no course
\* and no review, creates and deletes none, and of the bootcamps changes at
\* most its own field (averageCost, resp. averageRating) of bootcamp b: every
\* other bootcamp and every other field of b stay as they are, and when b does
\* not exist no bootcamp changes and none is created.
C28_RecomputationFrame ==
    [][\A i \in TaskIds :
          /\ Reads(i) => UNCHANGED <<bootcamps, courses, reviews>>
          /\ Writes(i) =>
               LET b == tasks[i].bootcamp
                   field == IF tasks[i].kind = "cost" THEN "averageCost" ELSE "averageRating"
               IN  /\ UNCHANGED <<courses, reviews>>
                   /\ DOMAIN bootcamps' = DOMAIN bootcamps
                   /\ \A c \in DOMAIN bootcamps :
                        /\ c # b => bootcamps'[c] = bootcamps[c]
                        /\ Without(bootcamps'[c], field) = Without(bootcamps[c], field)
                        /\ ~bootcamps[c].exists => bootcamps'[c] = bootcamps[c]]_vars

\* both recomputations have written for one bootcamp, each its own field, and
\* the other bootcamps are as they were created
C28_Witness ==
    \E b \in BootcampIds :
        /\ Settled(b)
        /\ bootcamps[b].exists
        /\ bootcamps[b].averageCost # {}
        /\ bootcamps[b].averageRating # {}
        /\ \A c \in BootcampIds \ {b} : bootcamps[c] = NewBootcamp

\* ---- C29 ----
\* the fraction q lies between lo and hi
Between(q, lo, hi) == q[2] > 0 /\ lo * q[2] <= q[1] /\ q[1] <= hi * q[2]

\* C29: every review in the collection has a rating between 1 and 10, and
\* the averageRating of a bootcamp, whenever it is present, lies between 1
\* and 10 inclusive.
C29_AverageRatingInRange ==
    /\ \A r \in ChildIds :
         Stored(reviews[r]) => (MinRating <= reviews[r].value /\ reviews[r].value <= MaxRating)
    /\ \A b \in DOMAIN bootcamps :
         \A q \in bootcamps[b].averageRating : Between(q, 1, 10)

\* one bootcamp holds the lowest average there can be and another the highest
C29_Witness ==
    \E b1, b2 \in BootcampIds :
        /\ bootcamps[b1].averageRating = {<<1, 1>>}
        /\ bootcamps[b2].averageRating = {<<10, 1>>}

\* ---- C30 ----
\* the request is as the limiter found it, but for the record of its passage
PassedOn == req' = [req EXCEPT !.ran = <<"limiter">>]

\* C30: of a request the application receives, the limiter is the first stage
\* to run, before static file serving and before any stage of a router; a
\* request it answers 429 has reached no other stage (no account is attached,
\* no listing is compiled, no handler has looked anything up) and the limiter
\* changes nothing stored, while a request under the limit is handed on as it
\* came; and a failure raised in a router is answered in the form of the
\* error handler, {success: false, error: <message>}.
C30_LimiterFirst ==
    /\ [](req.ip # 0 =>
            /\ req.ran # <<>> => req.ran[1] = "limiter"
            /\ req.status = 429 =>
                 /\ req.ran = <<"limiter">>
                 /\ req.user = NoUser
                 /\ req.id = -1
                 /\ req.data = "none"
                 /\ req.pagination = NoPagination
            /\ req.status \in {401, 403, 404} =>
                 (~req.success /\ req.error # "" /\ req.text = ""))
    /\ [][Runs("limiter") =>
            /\ req.ran = <<>>
            /\ StoreUnchanged
            /\ IF limiter.hits[req.ip] < Max
               THEN PassedOn
               ELSE req'.status = 429]_vars

\* an administrator's request for the listing of the accounts, with a valid
\* token, has been answered 429 by the limiter
C30_Witness ==
    /\ req.ip = 1
    /\ req.res = "users"
    /\ req.op = "list"
    /\ Verify(req.token, now) = [kind |-> "ok", sub |-> 1]
    /\ limiter.hits[1] > Max
    /\ req.status = 429
    /\ req.ran = <<"limiter">>

====
